---------------------------- MODULE Spec2Model ----------------------------
(***************************************************************************)
(* Convoy route planner: rule filter (rules_engine.py, filter_graph.py),   *)
(* cost model and A* search (routing_engine.py) and the planner            *)
(* (plan_route.py).                                                        *)
(*                                                                         *)
(* Numbers.  Python floats are modelled by exact integers in fixed units:  *)
(*   minutes (base_time_min, penalties, costs, eta)  in 1/100 minute,      *)
(*   risk_level and weather_sensitivity              in 1/100,             *)
(*   height_m, width_m and the segment limits        in 1/10 metre,        *)
(*   weight_tons, max_load_tons, distance_km         in whole units,       *)
(*   priority_score                                  in whole points.      *)
(* Every value of the input sets below is exactly representable, so the    *)
(* products and sums the code forms are the integers computed here.        *)
(*                                                                         *)
(* JSON fields.  A numeric field of a convoy or segment dict is a tagged   *)
(* value: Absent (the key is not in the dict), Text (the key holds a value *)
(* float() rejects, such as "high" or null) or Num(n).                     *)
(***************************************************************************)
EXTENDS Integers, Sequences, FiniteSets, TLC

VARIABLES
    convoy,     \* the convoy dict of the run
    graph,      \* graph.json: [nodes, segments]
    pc,         \* "input", then the entry point that has run
    hardOut,    \* what apply_hard_rules returned for segment probe
    costOut,    \* what edge_cost_for_convoy returned for segment probe
    probe,      \* index of the segment the last probe looked at
    filterOut,  \* what filter_graph_for_convoy returned
    routeOut,   \* what compute_route returned
    planOut,    \* what plan_for_convoy returned
    tables,     \* compute_route's locals min_time_per_km and dist_km_all
    files,      \* person3_world/: file name -> content written
    requests,   \* api.py: the POST /plan_route requests being served
    store,      \* app.py: the content of requests_store.json
    calls       \* app.py: the /request calls being served

vars == <<convoy, graph, pc, hardOut, costOut, probe, filterOut, routeOut,
          planOut, tables, files, requests, store, calls>>

\* the state of the two web services
webVars == <<requests, store, calls>>

---------------------------------------------------------------------------
(* Tagged JSON values *)

Absent == [k |-> "absent", v |-> 0]
Text == [k |-> "text", v |-> 0]
Num(n) == [k |-> "num", v |-> n]

AbsentClasses == [k |-> "absent", v |-> {}]
Classes(S) == [k |-> "set", v |-> S]

\* "key" in dict
Present(x) == x.k # "absent"
\* float(x) succeeds
FloatOk(x) == x.k = "num"
\* float(d.get(key, default)) where it succeeds
NumOr(x, default) == IF x.k = "num" THEN x.v ELSE default

---------------------------------------------------------------------------
(* rules_engine.py: tuning constants *)

\* 0.95, in 1/100
RISK_HARD_LIMIT == 95
\* 8.0 minutes
PRIORITY_ALLOWANCE_MINUTES_FACTOR == 8
\* 20.0 minutes per unit of risk
RISK_PENALTY_FACTOR == 20
\* 0.5, in 1/100: the weather sensitivity threshold of rule 6
WEATHER_SENSITIVITY_LIMIT == 50
\* float("inf"): larger than every finite cost of the model
Inf == 1000000000

\* TRAFFIC_PENALTY.get(level, 0), in 1/100 minute
TRAFFIC_PENALTY(level) ==
    CASE level = 0 -> 0
      [] level = 1 -> 500
      [] level = 2 -> 1500
      [] OTHER -> 0

\* CIVIL_IMPACT_PENALTY.get(civil, 0.0), in minutes
CIVIL_IMPACT_PENALTY(civil) ==
    CASE civil = "Low" -> 0
      [] civil = "Medium" -> 5
      [] civil = "High" -> 15
      [] OTHER -> 0

---------------------------------------------------------------------------
(* rules_engine.py: apply_hard_rules *)

HardResult(allowed, reason) ==
    [raised |-> FALSE, allowed |-> allowed, reason |-> reason]
HardRaised == [raised |-> TRUE, allowed |-> FALSE, reason |-> "TypeError"]

\* if "a" in convoy and "b" in segment: try: float(a) > float(b) except: pass
Exceeds(a, b) ==
    Present(a) /\ Present(b) /\ FloatOk(a) /\ FloatOk(b) /\ a.v > b.v

LoadExceeded(c, s) == Exceeds(c.weight_tons, s.max_load_tons)
HeightExceeded(c, s) == Exceeds(c.height_m, s.max_height_m)
WidthExceeded(c, s) == Exceeds(c.width_m, s.max_width_m)

ClassNotAllowed(c, s) ==
    LET allowed == IF s.allowed_convoy_classes.k = "absent"
                   THEN {"Light", "Medium", "Heavy"}
                   ELSE s.allowed_convoy_classes.v
        convoy_class == IF c.convoy_class = "" THEN "Light" ELSE c.convoy_class
    IN  convoy_class \notin allowed

RiskCutoffFires(s) ==
    Present(s.risk_level) /\ FloatOk(s.risk_level)
        /\ s.risk_level.v >= RISK_HARD_LIMIT

\* a variant that grants the override to every priority class
MedicalOverrideAnyClass(c) ==
    c.special_flags # {} /\ "medical" \in c.special_flags

MedicalOverride(c) ==
    c.priority_class = "P1" /\ c.special_flags # {}
        /\ "medical" \in c.special_flags

\* segment.get("weather_sensitivity", 0.0) >= 0.5 compares without float():
\* a str or None on the left raises TypeError
WeatherCompareRaises(s) == s.weather_sensitivity.k = "text"

WeatherBlocked(s) ==
    NumOr(s.weather_sensitivity, 0) >= WEATHER_SENSITIVITY_LIMIT
        /\ s.weather_blocked

\* a variant that checks the convoy class before the load and clearances
apply_hard_rules_class_first(c, s) ==
    IF s.is_blocked THEN HardResult(FALSE, "blocked_segment")
    ELSE IF ClassNotAllowed(c, s)
         THEN HardResult(FALSE, "convoy_class_not_allowed")
    ELSE IF LoadExceeded(c, s) THEN HardResult(FALSE, "load_capacity_exceeded")
    ELSE IF HeightExceeded(c, s) THEN HardResult(FALSE, "height_clearance")
    ELSE IF WidthExceeded(c, s) THEN HardResult(FALSE, "width_clearance")
    ELSE IF RiskCutoffFires(s)
         THEN IF MedicalOverride(c)
              THEN HardResult(TRUE, "emergency_medical_override")
              ELSE HardResult(FALSE, "high_risk_cutoff")
    ELSE IF WeatherCompareRaises(s) THEN HardRaised
    ELSE IF WeatherBlocked(s) THEN HardResult(FALSE, "weather_blocked")
    ELSE HardResult(TRUE, "none")

apply_hard_rules(c, s) ==
    IF s.is_blocked THEN HardResult(FALSE, "blocked_segment")
    ELSE IF LoadExceeded(c, s) THEN HardResult(FALSE, "load_capacity_exceeded")
    ELSE IF HeightExceeded(c, s) THEN HardResult(FALSE, "height_clearance")
    ELSE IF WidthExceeded(c, s) THEN HardResult(FALSE, "width_clearance")
    ELSE IF ClassNotAllowed(c, s)
         THEN HardResult(FALSE, "convoy_class_not_allowed")
    ELSE IF RiskCutoffFires(s)
         THEN IF MedicalOverride(c)
              THEN HardResult(TRUE, "emergency_medical_override")
              ELSE HardResult(FALSE, "high_risk_cutoff")
    ELSE IF WeatherCompareRaises(s) THEN HardRaised
    ELSE IF WeatherBlocked(s) THEN HardResult(FALSE, "weather_blocked")
    ELSE HardResult(TRUE, "none")

segment_allowed_for_convoy(c, s) == apply_hard_rules(c, s)

---------------------------------------------------------------------------
(* rules_engine.py: apply_soft_rules; routing_engine.py: edge_cost_for_convoy *)

Max(a, b) == IF a >= b THEN a ELSE b
Min(a, b) == IF a <= b THEN a ELSE b

\* int(segment.get("traffic_level", 0)) or float(segment.get("risk_level", 0.0))
\* raises ValueError/TypeError on a value that is not a number
SoftRaises(s) == s.traffic_level.k = "text" \/ s.risk_level.k = "text"

\* the weight before the final clamp, in 1/100 minute
SoftWeight(c, s) ==
    LET traffic == TRAFFIC_PENALTY(NumOr(s.traffic_level, 0))
        risk == NumOr(s.risk_level, 0) * RISK_PENALTY_FACTOR
        base_civil_pen == CIVIL_IMPACT_PENALTY(
                              IF s.civil_impact = "" THEN "Low" ELSE s.civil_impact)
        civil == IF c.priority_class = "P1" THEN base_civil_pen * 20
                 ELSE IF c.priority_class = "P2" THEN base_civil_pen * 60
                 ELSE base_civil_pen * 100
        medical == IF "medical" \in c.special_flags THEN 1000 ELSE 0
    IN  traffic + risk + civil - medical

\* a variant that leaves the weight negative
apply_soft_rules_unclamped(c, s) == SoftWeight(c, s)

\* if weight < 0: weight = 0.0
apply_soft_rules(c, s) ==
    IF SoftWeight(c, s) < 0 THEN 0 ELSE SoftWeight(c, s)

CostResult(val) == [raised |-> FALSE, val |-> val]
CostRaised == [raised |-> TRUE, val |-> 0]

EdgeCostRaises(c, s) == s.base_time_min.k = "text" \/ SoftRaises(s)

\* a variant without the floor
CostFloorNone(raw_cost) == raw_cost

\* the 0.1 minute floor, max(0.1, raw_cost), in 1/100 minute
CostFloor(raw_cost) == Max(10, raw_cost)

edge_cost_value(c, s) ==
    LET base_time == NumOr(s.base_time_min, 0) * 100
        soft == apply_soft_rules(c, s)
        priority_allowance == c.priority_score * PRIORITY_ALLOWANCE_MINUTES_FACTOR
        raw_cost == base_time + soft - priority_allowance
    IN  CostFloor(raw_cost)

edge_cost_for_convoy(c, s) ==
    IF EdgeCostRaises(c, s) THEN CostRaised ELSE CostResult(edge_cost_value(c, s))

---------------------------------------------------------------------------
(* routing_engine.py: build_graph (networkx.DiGraph) *)

\* float("inf") + x
Add(a, b) == IF a >= Inf \/ b >= Inf THEN Inf ELSE a + b

InSeq(x, seq) == \E i \in 1..Len(seq) : seq[i] = x

\* The DiGraph: nodes in insertion order, adj[u] the successors of u in
\* insertion order (the order G[u] iterates in), edge[<<u, v>>] the one
\* attribute dict of the edge u -> v.
EmptyDiGraph == [nodes |-> <<>>, adj |-> <<>>, edge |-> <<>>]

add_node(G, n) ==
    IF InSeq(n, G.nodes) THEN G
    ELSE [G EXCEPT !.nodes = Append(@, n), !.adj = @ @@ (n :> <<>>)]

\* datadict.update(attr): a key the new dict lacks keeps its old value
UpdateAttrs(old, new) ==
    [f \in DOMAIN new |->
        IF f \in {"distance_km", "base_time_min", "risk_level", "traffic_level",
                  "max_load_tons", "max_height_m", "max_width_m",
                  "allowed_convoy_classes", "weather_sensitivity"}
        THEN IF new[f].k = "absent" THEN old[f] ELSE new[f]
        ELSE IF f = "civil_impact"
             THEN IF new[f] = "" THEN old[f] ELSE new[f]
             ELSE new[f]]

\* G.add_edge(u, v, **attrs): unknown endpoints are added as nodes; an
\* existing edge u -> v keeps its place and has its dict updated
add_edge(G, u, v, attrs) ==
    LET G2 == add_node(add_node(G, u), v)
    IN  IF <<u, v>> \in DOMAIN G2.edge
        THEN [G2 EXCEPT !.edge[<<u, v>>] = UpdateAttrs(@, attrs)]
        ELSE [G2 EXCEPT !.adj[u] = Append(@, v),
                        !.edge = (<<u, v>> :> attrs) @@ @]

\* dict(seg) as edge attributes; the id is a sequence so that "_rev" can be
\* appended
ForwardAttrs(seg) == [seg EXCEPT !.segment_id = <<seg.segment_id>>]
ReverseAttrs(seg) ==
    [seg EXCEPT !.segment_id = <<seg.segment_id, "_rev">>,
                !.from_node = seg.to_node, !.to_node = seg.from_node]

RECURSIVE AddNodes(_, _, _)
AddNodes(G, nodes, i) ==
    IF i > Len(nodes) THEN G ELSE AddNodes(add_node(G, nodes[i]), nodes, i + 1)

RECURSIVE AddSegments(_, _, _)
AddSegments(G, segs, i) ==
    IF i > Len(segs) THEN G
    ELSE LET seg == segs[i]
             u == seg.from_node
             v == seg.to_node
             G1 == add_edge(G, u, v, ForwardAttrs(seg))
             G2 == add_edge(G1, v, u, ReverseAttrs(seg))
         IN  AddSegments(G2, segs, i + 1)

build_graph(g) == AddSegments(AddNodes(EmptyDiGraph, g.nodes, 1), g.segments, 1)

NodeSet(G) == {G.nodes[i] : i \in 1..Len(G.nodes)}

---------------------------------------------------------------------------
(* routing_engine.py: compute_min_time_per_km, precompute_shortest_distance_km *)

\* The ratio base_time_min / distance_km is kept as the pair <<t, d>>, t in
\* 1/100 minute and d > 0 in km; <<100, 1>> is the fallback 1.0.
RatioLess(r1, r2) == r1[1] * r2[2] < r2[1] * r1[2]

RECURSIVE MinRatio(_, _, _)
MinRatio(segs, i, best) ==
    IF i > Len(segs) THEN best
    ELSE LET seg == segs[i]
             ok == seg.distance_km.k # "text" /\ seg.base_time_min.k # "text"
             d == NumOr(seg.distance_km, 0)
             t == NumOr(seg.base_time_min, 0) * 100
             ratio == <<t, d>>
         IN  IF ok /\ d > 0 /\ (best = <<>> \/ RatioLess(ratio, best))
             THEN MinRatio(segs, i + 1, ratio)
             ELSE MinRatio(segs, i + 1, best)

compute_min_time_per_km(g) ==
    LET min_ratio == MinRatio(g.segments, 1, <<>>)
    IN  IF min_ratio = <<>> THEN <<100, 1>> ELSE min_ratio

\* float(seg.get("distance_km", 0.0)) raises on a value that is not a number
DistanceRaises(g) ==
    \E i \in 1..Len(g.segments) : g.segments[i].distance_km.k = "text"

\* the distance DiGraph: the last segment joining u and v sets both directions
RECURSIVE KmEdges(_, _, _)
KmEdges(segs, i, W) ==
    IF i > Len(segs) THEN W
    ELSE LET u == segs[i].from_node
             v == segs[i].to_node
             d == NumOr(segs[i].distance_km, 0)
             W1 == (<<u, v>> :> d) @@ W
             W2 == (<<v, u>> :> d) @@ W1
         IN  KmEdges(segs, i + 1, W2)

GraphNodeIds(g) ==
    {g.nodes[i] : i \in 1..Len(g.nodes)}
        \cup {g.segments[i].from_node : i \in 1..Len(g.segments)}
        \cup {g.segments[i].to_node : i \in 1..Len(g.segments)}

\* Shortest path lengths over weights W (a function on the pairs that are
\* edges) between the nodes N: relax through each intermediate node in turn.
RECURSIVE Relax(_, _, _)
Relax(D, N, ks) ==
    IF ks = {} THEN D
    ELSE LET k == CHOOSE x \in ks : TRUE
             D2 == [p \in N \X N |-> Min(D[p], Add(D[<<p[1], k>>], D[<<k, p[2]>>]))]
         IN  Relax(D2, N, ks \ {k})

ShortestLengths(W, N) ==
    LET D0 == [p \in N \X N |->
                 IF p[1] = p[2] THEN 0
                 ELSE IF p \in DOMAIN W THEN W[p] ELSE Inf]
    IN  Relax(D0, N, N)

\* dist[u][v]; Inf stands for "v is not a key of dist[u]"
precompute_shortest_distance_km(g) ==
    ShortestLengths(KmEdges(g.segments, 1, <<>>), GraphNodeIds(g))

---------------------------------------------------------------------------
(* networkx.astar_path as called by compute_route *)

\* heappop: least (priority, counter); counters are distinct
HeapMin(queue) ==
    CHOOSE e \in queue :
        \A o \in queue : e[1] < o[1] \/ (e[1] = o[1] /\ e[2] <= o[2])

\* ncost + heuristic(neighbor), multiplied by the denominator d of
\* min_time_per_km = t/d so that it stays an integer; inf stays inf
Priority(ctx, node, ncost) ==
    IF ncost >= Inf THEN Inf ELSE ncost * ctx.ratio[2] + ctx.h[node]

\* for neighbor, w in G[curnode].items(): ...
RECURSIVE PushNeighbors(_, _, _, _, _, _)
PushNeighbors(S, ctx, curnode, dist, nbrs, i) ==
    IF i > Len(nbrs) THEN S
    ELSE LET neighbor == nbrs[i]
             ncost == Add(dist, ctx.cost[<<curnode, neighbor>>])
             known == S.enqueued[neighbor] # -1
             S2 == IF known /\ S.enqueued[neighbor] <= ncost THEN S
                   ELSE [queue |-> S.queue \cup
                                     {<<Priority(ctx, neighbor, ncost), S.c,
                                        neighbor, ncost, curnode>>},
                         enqueued |-> [S.enqueued EXCEPT ![neighbor] = ncost],
                         explored |-> S.explored,
                         c |-> S.c + 1]
         IN  PushNeighbors(S2, ctx, curnode, dist, nbrs, i + 1)

\* path = [curnode]; node = parent; while node is not None: ...; path.reverse()
RECURSIVE PathBack(_, _)
PathBack(node, explored) ==
    IF node = "" THEN <<>> ELSE Append(PathBack(explored[node], explored), node)

\* while queue: ...; the empty sequence stands for NetworkXNoPath
RECURSIVE AStarLoop(_, _, _)
AStarLoop(S, ctx, target) ==
    IF S.queue = {} THEN <<>>
    ELSE LET e == HeapMin(S.queue)
             rest == S.queue \ {e}
             curnode == e[3]
             dist == e[4]
             parent == e[5]
         IN  IF curnode = target
             THEN Append(PathBack(parent, S.explored), curnode)
             ELSE IF S.explored[curnode] # "?"
                     /\ (S.explored[curnode] = "" \/ S.enqueued[curnode] < dist)
             THEN AStarLoop([S EXCEPT !.queue = rest], ctx, target)
             ELSE AStarLoop(
                      PushNeighbors([S EXCEPT !.queue = rest,
                                              !.explored[curnode] = parent],
                                    ctx, curnode, dist, ctx.G.adj[curnode], 1),
                      ctx, target)

\* nodes "?" = not explored, "" = None (the parent of the source);
\* enqueued -1 = not enqueued
astar_path(ctx, source, target) ==
    LET N == NodeSet(ctx.G)
        S0 == [queue |-> {<<0, 0, source, 0, "">>},
               enqueued |-> [n \in N |-> -1],
               explored |-> [n \in N |-> "?"],
               c |-> 1]
    IN  AStarLoop(S0, ctx, target)

---------------------------------------------------------------------------
(* routing_engine.py: compute_route *)

NoRoute == [raised |-> FALSE, success |-> FALSE, reason |-> "", origin |-> "",
            destination |-> "", convoy_id |-> "", route_nodes |-> <<>>,
            route_segments |-> <<>>, eta_minutes |-> 0, total_risk |-> 0,
            cost_breakdown |-> <<>>]

RouteRaised == [NoRoute EXCEPT !.raised = TRUE]

RouteFailure(reason, origin, destination) ==
    [NoRoute EXCEPT !.reason = reason, !.origin = origin,
                    !.destination = destination]

\* data["cost"] of every edge: inf for a blocked one
AnnotatedCost(c, G) ==
    [p \in DOMAIN G.edge |->
        IF G.edge[p].is_blocked THEN Inf ELSE edge_cost_value(c, G.edge[p])]

AnnotationRaises(c, G) ==
    \E p \in DOMAIN G.edge : ~G.edge[p].is_blocked /\ EdgeCostRaises(c, G.edge[p])

\* heuristic(u) times the denominator of min_time_per_km: 0.0 when the
\* destination is not a key of dist_km_all[u]
HeuristicTable(g, G, destination) ==
    LET dist_km_all == precompute_shortest_distance_km(g)
        min_time_per_km == compute_min_time_per_km(g)
    IN  [u \in NodeSet(G) |->
            LET dkm == dist_km_all[<<u, destination>>]
            IN  IF dkm >= Inf THEN 0 ELSE min_time_per_km[1] * dkm]

SearchContext(c, g, G) ==
    [G |-> G,
     cost |-> AnnotatedCost(c, G),
     ratio |-> compute_min_time_per_km(g),
     h |-> HeuristicTable(g, G, c.destination)]

\* float(edge.get("base_time_min", 0.0)), float(edge.get("risk_level", 0.0))
\* of a traversed edge
MetricsRaise(G, path) ==
    \E i \in 1..(Len(path) - 1) :
        LET edge == G.edge[<<path[i], path[i + 1]>>]
        IN  edge.base_time_min.k = "text" \/ edge.risk_level.k = "text"

RouteSegments(ctx, path) ==
    [i \in 1..(Len(path) - 1) |->
        LET u == path[i]
            v == path[i + 1]
            edge == ctx.G.edge[<<u, v>>]
        IN  [segment_id |-> edge.segment_id,
             from |-> u,
             to |-> v,
             base_time_min |-> NumOr(edge.base_time_min, 0) * 100,
             computed_cost |-> ctx.cost[<<u, v>>],
             risk_level |-> NumOr(edge.risk_level, 0)]]

RECURSIVE SumCost(_, _)
SumCost(segs, i) ==
    IF i > Len(segs) THEN 0 ELSE Add(segs[i].computed_cost, SumCost(segs, i + 1))

RECURSIVE SumRisk(_, _)
SumRisk(segs, i) ==
    IF i > Len(segs) THEN 0 ELSE segs[i].risk_level + SumRisk(segs, i + 1)

\* origin not in G.nodes or destination not in G.nodes
InvalidEndpoints(c, g, G) ==
    c.origin \notin NodeSet(G) \/ c.destination \notin NodeSet(G)

\* the result dictionary of a found path
RouteSuccess(c, path_nodes, route_segments) ==
    [raised |-> FALSE,
     success |-> TRUE,
     reason |-> "",
     origin |-> c.origin,
     destination |-> c.destination,
     convoy_id |-> c.convoy_id,
     route_nodes |-> path_nodes,
     route_segments |-> route_segments,
     eta_minutes |-> SumCost(route_segments, 1),
     total_risk |-> SumRisk(route_segments, 1),
     cost_breakdown |->
         [i \in 1..Len(route_segments) |->
             [segment |-> route_segments[i].segment_id,
              cost |-> route_segments[i].computed_cost,
              risk |-> route_segments[i].risk_level]]]

\* after the search: no_path, or the metrics of the path
RouteMetrics(c, ctx, path_nodes) ==
    IF path_nodes = <<>>
    THEN RouteFailure("no_path", c.origin, c.destination)
    ELSE IF MetricsRaise(ctx.G, path_nodes) THEN RouteRaised
    ELSE RouteSuccess(c, path_nodes, RouteSegments(ctx, path_nodes))

\* the search on the annotated graph
RouteSearch(c, ctx) ==
    RouteMetrics(c, ctx, astar_path(ctx, c.origin, c.destination))

\* compute_route once G = build_graph(graph_data) is built
RouteOnGraph(c, g, G) ==
    IF InvalidEndpoints(c, g, G)
    THEN RouteFailure("invalid_origin_or_destination", c.origin, c.destination)
    ELSE IF DistanceRaises(g) \/ AnnotationRaises(c, G) THEN RouteRaised
    ELSE RouteSearch(c, SearchContext(c, g, G))

compute_route(c, g) == RouteOnGraph(c, g, build_graph(g))

\* the locals dist_km_all and min_time_per_km of a compute_route call, once
\* it is past the endpoint check; NoTables when it returns or raises before
NoTables == [computed |-> FALSE, min_time_per_km |-> <<>>, dist_km_all |-> <<>>]

RouteLocals(c, g) ==
    IF InvalidEndpoints(c, g, build_graph(g)) \/ DistanceRaises(g) THEN NoTables
    ELSE [computed |-> TRUE,
          min_time_per_km |-> compute_min_time_per_km(g),
          dist_km_all |-> precompute_shortest_distance_km(g)]

---------------------------------------------------------------------------
(* filter_graph.py: filter_graph_for_convoy *)

RECURSIVE FilterSegments(_, _, _, _)
FilterSegments(c, segs, i, acc) ==
    IF i > Len(segs) THEN acc
    ELSE LET r == segment_allowed_for_convoy(c, segs[i])
         IN  IF r.raised THEN [acc EXCEPT !.raised = TRUE]
             ELSE IF r.allowed
             THEN FilterSegments(c, segs, i + 1,
                      [acc EXCEPT !.allowed_segments = Append(@, segs[i])])
             ELSE FilterSegments(c, segs, i + 1,
                      [acc EXCEPT !.excluded_segments =
                          Append(@, [segment |-> segs[i],
                                     rejection_reason |-> r.reason])])

\* a variant that logs the rejections and keeps every segment
filter_graph_keep_all(c, g) ==
    LET acc == FilterSegments(c, g.segments, 1,
                   [raised |-> FALSE, allowed_segments |-> <<>>,
                    excluded_segments |-> <<>>])
    IN  [raised |-> acc.raised,
         filtered |-> g,
         log |-> [convoy_id |-> IF c.convoy_id = "" THEN "unknown" ELSE c.convoy_id,
                  allowed_count |-> Len(acc.allowed_segments),
                  excluded_count |-> Len(acc.excluded_segments),
                  excluded_segments |-> acc.excluded_segments]]

filter_graph_for_convoy(c, g) ==
    LET acc == FilterSegments(c, g.segments, 1,
                   [raised |-> FALSE, allowed_segments |-> <<>>,
                    excluded_segments |-> <<>>])
    IN  [raised |-> acc.raised,
         filtered |-> [nodes |-> g.nodes, segments |-> acc.allowed_segments],
         log |-> [convoy_id |-> IF c.convoy_id = "" THEN "unknown" ELSE c.convoy_id,
                  allowed_count |-> Len(acc.allowed_segments),
                  excluded_count |-> Len(acc.excluded_segments),
                  excluded_segments |-> acc.excluded_segments]]

---------------------------------------------------------------------------
(* plan_route.py: plan_for_convoy *)

\* the files of person3_world/ are named <<kind, prefix>>
WriteFile(fs, kind, prefix, content) == (<<kind, prefix>> :> content) @@ fs

\* the plan and its summary, once the route files are written
SavePlan(fs2, convoy_id, plan) ==
    [raised |-> FALSE,
     files |-> WriteFile(fs2, "plan", convoy_id, plan),
     plan |-> plan,
     plan_summary |-> [convoy_id |-> convoy_id,
                       route_success |-> plan.route_result.success,
                       eta_minutes |-> plan.route_result.eta_minutes,
                       total_risk |-> plan.route_result.total_risk]]

\* plan = {"convoy_id": ..., "filter_log": ..., "route_result": ...}
MergedPlan(convoy_id, f, route_result) ==
    [convoy_id |-> convoy_id, filter_log |-> f.log, route_result |-> route_result]

\* save_route_result(route_result), then the plan
PlanAfterRoute(fs1, convoy_id, f, route_result) ==
    IF route_result.raised THEN [raised |-> TRUE, files |-> fs1]
    ELSE SavePlan(WriteFile(WriteFile(fs1, "route", convoy_id, route_result),
                            "route_log", convoy_id,
                            [convoy_id |-> convoy_id, result |-> route_result]),
                  convoy_id, MergedPlan(convoy_id, f, route_result))

\* the filtered graph and the log are saved, then compute_route runs on the
\* filtered graph
PlanAfterFilter(c, fs, convoy_id, f) ==
    IF f.raised THEN [raised |-> TRUE, files |-> fs]
    ELSE PlanAfterRoute(WriteFile(WriteFile(fs, "filtered_graph", convoy_id,
                                            f.filtered),
                                  "filter_log", convoy_id, f.log),
                        convoy_id, f, compute_route(c, f.filtered))

\* the planner's run: what it returns and the files it leaves.  "raised" is
\* an exception leaving plan_for_convoy; the files written before it stay.
plan_for_convoy(c, g, fs) ==
    PlanAfterFilter(c, fs, IF c.convoy_id = "" THEN "convoy" ELSE c.convoy_id,
                    filter_graph_for_convoy(c, g))

\* a variant whose search takes its tables from the input graph
PlanLocalsInputGraph(c, g) ==
    IF filter_graph_for_convoy(c, g).raised THEN NoTables ELSE RouteLocals(c, g)

\* the locals of the compute_route call plan_for_convoy makes
PlanLocals(c, g) ==
    IF filter_graph_for_convoy(c, g).raised THEN NoTables
    ELSE RouteLocals(c, filter_graph_for_convoy(c, g).filtered)

---------------------------------------------------------------------------
(* Inputs *)

\* the longest segment list of a routing graph
MaxSegs == 3
PlainSegment ==
    [segment_id |-> "s1", from_node |-> "A", to_node |-> "B",
     distance_km |-> Num(10), base_time_min |-> Num(10),
     risk_level |-> Absent, traffic_level |-> Absent, civil_impact |-> "",
     max_load_tons |-> Absent, max_height_m |-> Absent, max_width_m |-> Absent,
     allowed_convoy_classes |-> AbsentClasses, is_blocked |-> FALSE,
     weather_sensitivity |-> Absent, weather_blocked |-> FALSE]

PlainConvoy ==
    [convoy_id |-> "CV1", origin |-> "A", destination |-> "B",
     convoy_class |-> "Heavy", weight_tons |-> Absent, height_m |-> Absent,
     width_m |-> Absent, priority_class |-> "P3", special_flags |-> {},
     priority_score |-> 0]

OneSegmentGraph(seg) == [nodes |-> <<"A", "B">>, segments |-> <<seg>>]

\* Rule filter inputs: each hard rule passes, fires, or is skipped because a
\* field is absent or not a number
RuleSegments ==
    {[PlainSegment EXCEPT !.is_blocked = b, !.max_load_tons = ml,
                          !.max_height_m = Num(30), !.max_width_m = mw,
                          !.allowed_convoy_classes = ac, !.risk_level = rl,
                          !.weather_sensitivity = ws, !.weather_blocked = wb] :
        b \in BOOLEAN,
        ml \in {Absent, Text, Num(20), Num(25)},
        mw \in {Absent, Text, Num(32), Num(40)},
        ac \in {AbsentClasses, Classes({"Light"})},
        rl \in {Absent, Text, Num(94), Num(95)},
        ws \in {Absent, Text, Num(49), Num(50)},
        wb \in BOOLEAN}

RuleConvoys ==
    {[PlainConvoy EXCEPT !.weight_tons = Num(22), !.height_m = h,
                         !.width_m = Num(35), !.priority_class = p,
                         !.special_flags = fl] :
        h \in {Absent, Text, Num(28), Num(32)},
        p \in {"P1", "P2", "P3"},
        fl \in {{}, {"medical"}}}

\* Cost model inputs
CostSegments ==
    {[PlainSegment EXCEPT !.base_time_min = bt, !.traffic_level = tl,
                          !.risk_level = rl, !.civil_impact = ci] :
        bt \in {Absent, Num(0), Num(5), Num(30)},
        tl \in {Absent, Num(1), Num(2), Num(3)},
        rl \in {Absent, Num(30), Num(100)},
        ci \in {"", "Medium", "High"}}

CostConvoys ==
    {[PlainConvoy EXCEPT !.priority_class = p, !.special_flags = fl,
                         !.priority_score = ps] :
        p \in {"P1", "P2", "P3"},
        fl \in {{}, {"medical"}},
        ps \in {0, 50, 100}}

\* Routing inputs: graphs over A, B, C of up to MaxSegs segments, each
\* <<from_node, to_node, distance_km, base_time_min, is_blocked>>
RoutePool ==
    {[PlainSegment EXCEPT !.from_node = e[1], !.to_node = e[2],
                          !.distance_km = Num(e[3]),
                          !.base_time_min = Num(e[4]),
                          !.is_blocked = e[5]] :
        e \in {<<"A", "B", 10, 10, FALSE>>, <<"A", "B", 10, 10, TRUE>>,
               <<"B", "C", 10, 10, FALSE>>, <<"B", "C", 10, 10, TRUE>>,
               <<"A", "C", 13, 13, FALSE>>, <<"A", "C", 13, 13, TRUE>>,
               <<"A", "C", 10, 20, FALSE>>, <<"C", "B", 5, 15, FALSE>>}}

SegmentId(i) == <<"s1", "s2", "s3", "s4", "s5">>[i]

RouteGraphs ==
    {[nodes |-> ns,
      segments |-> [i \in 1..Len(ss) |-> [ss[i] EXCEPT !.segment_id = SegmentId(i)]]] :
        ns \in {<<"A", "B", "C">>, <<"A", "B">>},
        ss \in UNION {[1..n -> RoutePool] : n \in 0..MaxSegs}}

RouteConvoys ==
    {[PlainConvoy EXCEPT !.origin = od[1], !.destination = od[2],
                         !.priority_class = "P1",
                         !.special_flags = pf[2], !.priority_score = pf[1]] :
        od \in {<<"A", "C">>, <<"X", "C">>, <<"A", "X">>},
        pf \in {<<0, {}>>, <<100, {"medical"}>>}}

---------------------------------------------------------------------------
(* The run: inputs, then one entry point *)

NoHard == [raised |-> FALSE, allowed |-> FALSE, reason |-> ""]
NoFilter == [raised |-> FALSE, filtered |-> [nodes |-> <<>>, segments |-> <<>>],
             log |-> [convoy_id |-> "", allowed_count |-> 0,
                      excluded_count |-> 0, excluded_segments |-> <<>>]]
NoPlan == [raised |-> FALSE]

Init ==
    /\ \/ convoy \in RuleConvoys /\ graph \in {OneSegmentGraph(s) : s \in RuleSegments}
       \/ convoy \in CostConvoys /\ graph \in {OneSegmentGraph(s) : s \in CostSegments}
       \/ convoy \in RouteConvoys /\ graph \in RouteGraphs
    /\ pc = "input"
    /\ hardOut = NoHard
    /\ costOut = CostResult(0)
    /\ probe = 0
    /\ filterOut = NoFilter
    /\ routeOut = NoRoute
    /\ planOut = NoPlan
    /\ tables = NoTables
    /\ files = <<>>
    /\ requests = <<>>
    /\ store = <<>>
    /\ calls = <<>>

\* apply_hard_rules(convoy, segment) on one segment of the graph
ApplyHardRules ==
    /\ pc = "input"
    /\ \E i \in 1..Len(graph.segments) :
          /\ probe' = i
          /\ hardOut' = apply_hard_rules(convoy, graph.segments[i])
    /\ pc' = "hard"
    /\ UNCHANGED <<convoy, graph, costOut, filterOut, routeOut, planOut, tables,
                   files>>
    /\ UNCHANGED webVars

\* edge_cost_for_convoy(convoy, segment) on one segment of the graph
EdgeCost ==
    /\ pc = "input"
    /\ \E i \in 1..Len(graph.segments) :
          /\ probe' = i
          /\ costOut' = edge_cost_for_convoy(convoy, graph.segments[i])
    /\ pc' = "cost"
    /\ UNCHANGED <<convoy, graph, hardOut, filterOut, routeOut, planOut, tables,
                   files>>
    /\ UNCHANGED webVars

\* the file prefix convoy.get("convoy_id", "convoy")
FilePrefix(c) == IF c.convoy_id = "" THEN "convoy" ELSE c.convoy_id

\* filter_graph.py main: filter, then save the filtered graph and the log
FilterGraph ==
    /\ pc = "input"
    /\ \E r \in {filter_graph_for_convoy(convoy, graph)} :
          /\ filterOut' = r
          /\ files' = IF r.raised THEN files
                      ELSE WriteFile(WriteFile(files, "filtered_graph",
                                               FilePrefix(convoy), r.filtered),
                                     "filter_log", FilePrefix(convoy), r.log)
    /\ pc' = "filtered"
    /\ UNCHANGED <<convoy, graph, hardOut, costOut, probe, routeOut, planOut,
                   tables>>
    /\ UNCHANGED webVars

\* routing_engine.py main: compute_route on the graph as given, then
\* save_route_result
ComputeRoute ==
    /\ pc = "input"
    /\ \E res \in {compute_route(convoy, graph)} :
          /\ routeOut' = res
          /\ tables' = RouteLocals(convoy, graph)
          /\ files' = IF res.raised THEN files
                      ELSE WriteFile(WriteFile(files, "route", FilePrefix(convoy),
                                               res),
                                     "route_log", FilePrefix(convoy),
                                     [convoy_id |-> FilePrefix(convoy),
                                      result |-> res])
    /\ pc' = "routed"
    /\ UNCHANGED <<convoy, graph, hardOut, costOut, probe, filterOut, planOut>>
    /\ UNCHANGED webVars

\* plan_route.py main: plan_for_convoy(convoy, graph)
PlanRoute ==
    /\ pc = "input"
    /\ \E r \in {plan_for_convoy(convoy, graph, files)} :
          /\ files' = r.files
          /\ tables' = PlanLocals(convoy, graph)
          /\ planOut' = IF r.raised THEN [raised |-> TRUE]
                        ELSE [raised |-> FALSE, plan |-> r.plan,
                              plan_summary |-> r.plan_summary]
    /\ pc' = "planned"
    /\ UNCHANGED <<convoy, graph, hardOut, costOut, probe, filterOut, routeOut>>
    /\ UNCHANGED webVars

Next ==
    \/ ApplyHardRules
    \/ EdgeCost
    \/ FilterGraph
    \/ ComputeRoute
    \/ PlanRoute

Spec == Init /\ [][Next]_vars

---------------------------------------------------------------------------
(* api.py: POST /plan_route, served by concurrent request threads that share
   person3_world/.  plan_for_convoy is taken apart at its accesses to the
   plan file; the writes of the other four files, which no request reads,
   stay with the step that computes their content. *)

\* a file opened with "w" whose content is not written yet
Truncated == [json |-> "empty"]

\* a file two writers wrote into at once
Corrupt == [json |-> "mixed"]

\* json.load(f) raises on such a file
Unreadable(content) == "json" \in DOMAIN content

IsTruncated(content) == Unreadable(content) /\ content.json = "empty"

NoResponse == [status |-> 0, plan |-> <<>>]
ErrorResponse(status) == [status |-> status, plan |-> <<>>]
PlanResponse(plan_json) == [status |-> 200, plan |-> plan_json]

\* the graphs graph.json may hold
ApiGraphs ==
    {[nodes |-> <<"A", "B", "C">>,
      segments |-> <<[PlainSegment EXCEPT !.segment_id = SegmentId(1)],
                     [s EXCEPT !.segment_id = SegmentId(2)]>>] :
        s \in {x \in RoutePool : x.to_node = "C"}
                 \cup {[PlainSegment EXCEPT !.from_node = "B", !.to_node = "C",
                                            !.risk_level = Text]}}

\* request bodies: {} or a convoy, with or without convoy_id
ApiBodies ==
    {[empty |-> TRUE, convoy |-> PlainConvoy]}
        \cup {[empty |-> FALSE,
               convoy |-> [PlainConvoy EXCEPT !.convoy_id = id,
                                              !.destination = d]] :
                 id \in {"CV1", "CV2", ""}, d \in {"B", "C"}}

\* a request thread at the top of plan_route_endpoint
Received(body) ==
    [pc |-> "received", body |-> body, f |-> NoFilter, route_result |-> NoRoute,
     response |-> NoResponse]

ApiInit ==
    /\ convoy = PlainConvoy
    /\ graph \in ApiGraphs
    /\ pc = "serving"
    /\ hardOut = NoHard
    /\ costOut = CostResult(0)
    /\ probe = 0
    /\ filterOut = NoFilter
    /\ routeOut = NoRoute
    /\ planOut = NoPlan
    /\ tables = NoTables
    /\ files = <<>>
    /\ requests \in [1..2 -> {Received(b) : b \in ApiBodies}]
    /\ store = <<>>
    /\ calls = <<>>

ApiUnchanged ==
    UNCHANGED <<convoy, graph, pc, hardOut, costOut, probe, filterOut, routeOut,
                planOut, tables, store, calls>>

Answer(r, response) ==
    requests' = [requests EXCEPT ![r].pc = "done", ![r].response = response]

\* request.get_json, load_graph, then plan_for_convoy up to the saved filter
\* files
ApiFilter(r) ==
    /\ requests[r].pc = "received"
    /\ LET c == requests[r].body.convoy
       IN  IF requests[r].body.empty
           THEN Answer(r, ErrorResponse(400)) /\ UNCHANGED files
           ELSE \E f \in {filter_graph_for_convoy(c, graph)} :
                   IF f.raised
                   THEN Answer(r, ErrorResponse(500)) /\ UNCHANGED files
                   ELSE /\ files' = WriteFile(WriteFile(files, "filtered_graph",
                                                        FilePrefix(c), f.filtered),
                                              "filter_log", FilePrefix(c), f.log)
                        /\ requests' = [requests EXCEPT ![r].pc = "filtered",
                                                        ![r].f = f]
    /\ ApiUnchanged

\* compute_route on the filtered graph, then the route files
ApiRoute(r) ==
    /\ requests[r].pc = "filtered"
    /\ LET c == requests[r].body.convoy
       IN  \E route_result \in {compute_route(c, requests[r].f.filtered)} :
               IF route_result.raised
               THEN Answer(r, ErrorResponse(500)) /\ UNCHANGED files
               ELSE /\ files' = WriteFile(
                                    WriteFile(files, "route", FilePrefix(c),
                                              route_result),
                                    "route_log", FilePrefix(c),
                                    [convoy_id |-> FilePrefix(c),
                                     result |-> route_result])
                    /\ requests' = [requests EXCEPT
                                        ![r].pc = "routed",
                                        ![r].route_result = route_result]
    /\ ApiUnchanged

\* open(plan_path, "w")
ApiOpenPlan(r) ==
    /\ requests[r].pc = "routed"
    /\ files' = WriteFile(files, "plan", FilePrefix(requests[r].body.convoy),
                          Truncated)
    /\ requests' = [requests EXCEPT ![r].pc = "plan_open"]
    /\ ApiUnchanged

\* json.dump(plan, f) and the close of the file: when another writer has
\* written since this one opened the file, the bytes of the two mix or this
\* writer's replace the other's
ApiDumpPlan(r) ==
    /\ requests[r].pc = "plan_open"
    /\ LET c == requests[r].body.convoy
           plan == MergedPlan(FilePrefix(c), requests[r].f,
                              requests[r].route_result)
           path == <<"plan", FilePrefix(c)>>
       IN  \E content \in IF IsTruncated(files[path]) THEN {plan}
                          ELSE {plan, Corrupt} :
               files' = WriteFile(files, "plan", FilePrefix(c), content)
    /\ requests' = [requests EXCEPT ![r].pc = "planned"]
    /\ ApiUnchanged

\* with open(plan_path) as f: plan_json = json.load(f); return jsonify(...)
ApiRespond(r) ==
    /\ requests[r].pc = "planned"
    /\ LET content == files[<<"plan", FilePrefix(requests[r].body.convoy)>>]
       IN  IF Unreadable(content)
           THEN Answer(r, ErrorResponse(500))
           ELSE Answer(r, PlanResponse(content))
    /\ UNCHANGED files
    /\ ApiUnchanged

ApiNext ==
    \/ \E r \in DOMAIN requests : ApiFilter(r)
    \/ \E r \in DOMAIN requests : ApiRoute(r)
    \/ \E r \in DOMAIN requests : ApiOpenPlan(r)
    \/ \E r \in DOMAIN requests : ApiDumpPlan(r)
    \/ \E r \in DOMAIN requests : ApiRespond(r)

ApiSpec == ApiInit /\ [][ApiNext]_vars

---------------------------------------------------------------------------
(* priority_engine.py: compute_priority with DEFAULT_CONFIG (no config.json) *)

URGENCY_MAP(urgency) ==
    CASE urgency = "P1" -> 100 [] urgency = "P2" -> 70 [] urgency = "P3" -> 40
      [] OTHER -> 40

MISSION_MAP(mission_type) ==
    CASE mission_type = "Medical" -> 40 [] mission_type = "Ammo" -> 35
      [] mission_type = "Fuel" -> 30 [] mission_type = "TroopMove" -> 25
      [] mission_type = "Routine" -> 10 [] OTHER -> 10

\* RISK_MAP and CIVIL_MAP hold the same values
RISK_MAP(zone) ==
    CASE zone = "High" -> 30 [] zone = "Medium" -> 20 [] zone = "Low" -> 10
      [] OTHER -> 10

SPECIAL_MAP(flag) ==
    CASE flag = "medical" -> 30 [] flag = "VIP" -> 20 [] flag = "training" -> -10
      [] OTHER -> 0

RECURSIVE SumSpecial(_)
SumSpecial(flags) ==
    IF flags = <<>> THEN 0 ELSE SPECIAL_MAP(Head(flags)) + SumSpecial(Tail(flags))

\* round() of a number given in tenths: halves go to the even neighbour
RoundTenths(x) ==
    LET q == x \div 10
        r == x % 10
    IN  IF r < 5 THEN q
        ELSE IF r > 5 THEN q + 1
        ELSE IF q % 2 = 0 THEN q ELSE q + 1

\* raw = wU*U + wM*M + wR*R - wC*C + S with weights 0.5, 0.2, 0.2, 0.1
compute_priority(request) ==
    LET raw10 == 5 * URGENCY_MAP(request.urgency)
                   + 2 * MISSION_MAP(request.mission_type)
                   + 2 * RISK_MAP(request.risk_zone)
                   - RISK_MAP(request.civil_impact)
                   + 10 * SumSpecial(request.special_flags)
        score == Max(0, Min(100, RoundTenths(raw10)))
    IN  [request_id |-> request.request_id,
         score |-> score,
         label |-> IF score >= 80 THEN "P1" ELSE IF score >= 50 THEN "P2" ELSE "P3"]

---------------------------------------------------------------------------
(* app.py: the request store requests_store.json, served by concurrent
   handler threads.  created_at, the clock reading, is left out of a record. *)

\* the longest run of concurrent /request calls
MaxCalls == 3

\* load_store(): json.JSONDecodeError on a file that is being rewritten or
\* was written by two writers at once gives []
load_store(file) == IF file.json = "list" THEN file.rows ELSE <<>>

\* the file after json.dump(data, f)
Dumped(data) == [json |-> "list", rows |-> data]

\* normalize_request_payload(payload), for a payload that carries request_id
normalize_request_payload(payload) ==
    [request_id |-> payload.request_id,
     mission_type |-> "Routine",
     urgency |-> IF payload.urgency = "" THEN "P3" ELSE payload.urgency,
     risk_zone |-> "Low",
     civil_impact |-> "Low",
     special_flags |-> <<>>]

\* req["priority"] = priority_info
WithPriority(req) ==
    [request_id |-> req.request_id, mission_type |-> req.mission_type,
     urgency |-> req.urgency, risk_zone |-> req.risk_zone,
     civil_impact |-> req.civil_impact, special_flags |-> req.special_flags,
     priority |-> compute_priority(req)]

HasId(rows, request_id) == \E i \in 1..Len(rows) : rows[i].request_id = request_id

\* [r for r in store if r.get("request_id") != request_id]
RECURSIVE WithoutId(_, _)
WithoutId(rows, request_id) ==
    IF rows = <<>> THEN <<>>
    ELSE IF Head(rows).request_id = request_id
    THEN WithoutId(Tail(rows), request_id)
    ELSE <<Head(rows)>> \o WithoutId(Tail(rows), request_id)

\* next((r for r in store if r.get("request_id") == request_id), None)
FirstWithId(rows, request_id) ==
    rows[CHOOSE i \in 1..Len(rows) :
            /\ rows[i].request_id = request_id
            /\ \A j \in 1..(i - 1) : rows[j].request_id # request_id]

NoRow == <<>>
StoreResponse(status, row) == [status |-> status, row |-> row]

\* the calls a client may make
StoreCalls ==
    {[op |-> "create", request_id |-> id, urgency |-> u, empty |-> FALSE] :
         id \in {"REQ-A", "REQ-B"}, u \in {"", "P1"}}
    \cup {[op |-> "create", request_id |-> "REQ-A", urgency |-> "", empty |-> TRUE]}
    \cup {[op |-> o, request_id |-> id, urgency |-> "", empty |-> FALSE] :
             o \in {"delete", "get"}, id \in {"REQ-A", "REQ-B"}}

\* a handler thread at the top of its view function
Arrived(call) ==
    [pc |-> "start", call |-> call, data |-> <<>>,
     response |-> StoreResponse(0, NoRow)]

StoreInit ==
    /\ convoy = PlainConvoy
    /\ graph = OneSegmentGraph(PlainSegment)
    /\ pc = "serving"
    /\ hardOut = NoHard
    /\ costOut = CostResult(0)
    /\ probe = 0
    /\ filterOut = NoFilter
    /\ routeOut = NoRoute
    /\ planOut = NoPlan
    /\ tables = NoTables
    /\ files = <<>>
    /\ requests = <<>>
    /\ store = Dumped(<<>>)
    /\ calls \in UNION {[1..n -> {Arrived(c) : c \in StoreCalls}] : n \in 1..MaxCalls}

StoreUnchanged ==
    UNCHANGED <<convoy, graph, pc, hardOut, costOut, probe, filterOut, routeOut,
                planOut, tables, files, requests>>

Reply(k, status, row) ==
    calls' = [calls EXCEPT ![k].pc = "done",
                           ![k].response = StoreResponse(status, row)]

\* create_request up to store.append(req): the payload check, load_store,
\* the duplicate check and compute_priority
CreateRequest(k) ==
    /\ calls[k].pc = "start"
    /\ calls[k].call.op = "create"
    /\ LET req == WithPriority(normalize_request_payload(calls[k].call))
           rows == load_store(store)
       IN  IF calls[k].call.empty THEN Reply(k, 400, NoRow)
           ELSE IF HasId(rows, req.request_id) THEN Reply(k, 400, NoRow)
           ELSE calls' = [calls EXCEPT ![k].pc = "saving",
                                       ![k].data = Append(rows, req),
                                       ![k].response = StoreResponse(201, req)]
    /\ UNCHANGED store
    /\ StoreUnchanged

\* delete_request up to save_store(new_store)
DeleteRequest(k) ==
    /\ calls[k].pc = "start"
    /\ calls[k].call.op = "delete"
    /\ LET rows == load_store(store)
           new_store == WithoutId(rows, calls[k].call.request_id)
       IN  IF Len(new_store) = Len(rows) THEN Reply(k, 404, NoRow)
           ELSE calls' = [calls EXCEPT ![k].pc = "saving",
                                       ![k].data = new_store,
                                       ![k].response = StoreResponse(200, NoRow)]
    /\ UNCHANGED store
    /\ StoreUnchanged

\* get_request
GetRequest(k) ==
    /\ calls[k].pc = "start"
    /\ calls[k].call.op = "get"
    /\ LET rows == load_store(store)
           request_id == calls[k].call.request_id
       IN  IF ~HasId(rows, request_id) THEN Reply(k, 404, NoRow)
           ELSE Reply(k, 200, WithPriority(FirstWithId(rows, request_id)))
    /\ UNCHANGED store
    /\ StoreUnchanged

\* save_store: open(STORE_FILE, "w")
SaveStoreOpen(k) ==
    /\ calls[k].pc = "saving"
    /\ store' = Truncated
    /\ calls' = [calls EXCEPT ![k].pc = "open"]
    /\ StoreUnchanged

\* save_store: json.dump(data, f) and the close of the file, then the
\* handler's answer; when another writer has written since this one opened
\* the file, the bytes of the two mix or this writer's replace the other's
SaveStoreDump(k) ==
    /\ calls[k].pc = "open"
    /\ \E content \in IF IsTruncated(store) THEN {Dumped(calls[k].data)}
                      ELSE {Dumped(calls[k].data), Corrupt} :
           store' = content
    /\ calls' = [calls EXCEPT ![k].pc = "done"]
    /\ StoreUnchanged

StoreNext ==
    \/ \E k \in DOMAIN calls : CreateRequest(k)
    \/ \E k \in DOMAIN calls : DeleteRequest(k)
    \/ \E k \in DOMAIN calls : GetRequest(k)
    \/ \E k \in DOMAIN calls : SaveStoreOpen(k)
    \/ \E k \in DOMAIN calls : SaveStoreDump(k)

StoreSpec == StoreInit /\ [][StoreNext]_vars

---------------------------------------------------------------------------
(* The rule order of the design, stated apart from apply_hard_rules *)

RuleOrder ==
    <<"blocked_segment", "load_capacity_exceeded", "height_clearance",
      "width_clearance", "convoy_class_not_allowed", "risk", "weather_blocked">>

\* a rule can be evaluated: the numbers it compares are there and are numbers
\* (an absent weather_sensitivity counts as 0.0)
Comparable(rule, c, s) ==
    CASE rule = "load_capacity_exceeded" ->
             c.weight_tons.k = "num" /\ s.max_load_tons.k = "num"
      [] rule = "height_clearance" ->
             c.height_m.k = "num" /\ s.max_height_m.k = "num"
      [] rule = "width_clearance" ->
             c.width_m.k = "num" /\ s.max_width_m.k = "num"
      [] rule = "risk" -> s.risk_level.k = "num"
      [] rule = "weather_blocked" -> s.weather_sensitivity.k # "text"
      [] OTHER -> TRUE

\* a numeric field of the rule is missing or holds a value that is no number
FieldUnusable(rule, c, s) ==
    CASE rule = "load_capacity_exceeded" ->
             c.weight_tons.k # "num" \/ s.max_load_tons.k # "num"
      [] rule = "height_clearance" ->
             c.height_m.k # "num" \/ s.max_height_m.k # "num"
      [] rule = "width_clearance" ->
             c.width_m.k # "num" \/ s.max_width_m.k # "num"
      [] rule = "risk" -> s.risk_level.k # "num"
      [] rule = "weather_blocked" -> s.weather_sensitivity.k # "num"
      [] OTHER -> FALSE

Violated(rule, c, s) ==
    /\ Comparable(rule, c, s)
    /\ CASE rule = "blocked_segment" -> s.is_blocked
         [] rule = "load_capacity_exceeded" -> c.weight_tons.v > s.max_load_tons.v
         [] rule = "height_clearance" -> c.height_m.v > s.max_height_m.v
         [] rule = "width_clearance" -> c.width_m.v > s.max_width_m.v
         [] rule = "convoy_class_not_allowed" ->
                /\ s.allowed_convoy_classes.k = "set"
                /\ (IF c.convoy_class = "" THEN "Light" ELSE c.convoy_class)
                       \notin s.allowed_convoy_classes.v
         [] rule = "risk" -> s.risk_level.v >= 95
         [] rule = "weather_blocked" ->
                /\ s.weather_sensitivity.k = "num"
                /\ s.weather_sensitivity.v >= 50
                /\ s.weather_blocked

ViolatedRules(c, s) == {i \in 1..Len(RuleOrder) : Violated(RuleOrder[i], c, s)}

FirstViolated(c, s) ==
    IF ViolatedRules(c, s) = {} THEN "none"
    ELSE RuleOrder[CHOOSE i \in ViolatedRules(c, s) :
                       \A j \in ViolatedRules(c, s) : i <= j]

IsMedicalP1(c) == c.priority_class = "P1" /\ "medical" \in c.special_flags

\* the outcome the ordered rules give, unusable rules skipped
OrderedOutcome(c, s) ==
    LET first == FirstViolated(c, s)
    IN  CASE first = "none" -> [allowed |-> TRUE, reason |-> "none"]
          [] first = "risk" ->
                 IF IsMedicalP1(c)
                 THEN [allowed |-> TRUE, reason |-> "emergency_medical_override"]
                 ELSE [allowed |-> FALSE, reason |-> "high_risk_cutoff"]
          [] OTHER -> [allowed |-> FALSE, reason |-> first]

ProbedSegment == graph.segments[probe]

HardOutcomeIs(o) ==
    ~hardOut.raised /\ hardOut.allowed = o.allowed /\ hardOut.reason = o.reason

---------------------------------------------------------------------------
(* Claims *)

\* C3: apply_hard_rules returns the outcome of the first rule that fires in
\* the order blocked_segment, load_capacity_exceeded, height_clearance,
\* width_clearance, convoy_class_not_allowed, risk cutoff/override,
\* weather_blocked: whenever a convoy and segment violate one or several
\* rules, the reported outcome is that of the earliest violated rule.
C3_FirstViolatedRuleWins ==
    (pc = "hard" /\ FirstViolated(convoy, ProbedSegment) # "none")
        => HardOutcomeIs(OrderedOutcome(convoy, ProbedSegment))

\* a non-blocked segment violating load, height, width and class at once is
\* rejected for its load
C3_Witness ==
    /\ pc = "hard"
    /\ ViolatedRules(convoy, ProbedSegment) = {2, 3, 4, 5}
    /\ hardOut.reason = "load_capacity_exceeded"

\* C4: a segment that passes rules 1-5 (blocked, load, height, width, class)
\* and has risk_level >= 0.95 is allowed if and only if the convoy is P1 and
\* its special_flags contain "medical", then with reason
\* emergency_medical_override; every other convoy is rejected with
\* high_risk_cutoff.
C4_HighRiskCutoff ==
    (/\ pc = "hard"
     /\ ViolatedRules(convoy, ProbedSegment) \cap 1..5 = {}
     /\ ProbedSegment.risk_level.k = "num"
     /\ ProbedSegment.risk_level.v >= 95)
        => /\ ~hardOut.raised
           /\ hardOut.allowed <=> IsMedicalP1(convoy)
           /\ hardOut.allowed => hardOut.reason = "emergency_medical_override"
           /\ ~hardOut.allowed => hardOut.reason = "high_risk_cutoff"

\* a P2 medical convoy is rejected at the boundary risk 0.95
C4_Witness ==
    /\ pc = "hard"
    /\ ViolatedRules(convoy, ProbedSegment) \cap 1..5 = {}
    /\ ProbedSegment.risk_level = Num(95)
    /\ convoy.priority_class = "P2"
    /\ "medical" \in convoy.special_flags
    /\ hardOut.reason = "high_risk_cutoff"

WeatherBlockedSegment(s) ==
    /\ s.weather_sensitivity.k = "num"
    /\ s.weather_sensitivity.v >= 50
    /\ s.weather_blocked

\* C5: a segment with weather_sensitivity >= 0.5 and weather_blocked = true
\* that no earlier rule rejects is rejected with reason weather_blocked, and
\* filter_graph_for_convoy never places such a segment in the allowed set.
C5_WeatherBlockedNeverAllowed ==
    /\ (/\ pc = "hard"
        /\ WeatherBlockedSegment(ProbedSegment)
        /\ ViolatedRules(convoy, ProbedSegment) \cap 1..5 = {}
        /\ hardOut.reason # "high_risk_cutoff")
           => (~hardOut.raised /\ ~hardOut.allowed
               /\ hardOut.reason = "weather_blocked")
    /\ (pc = "filtered" /\ ~filterOut.raised)
           => \A i \in 1..Len(filterOut.filtered.segments) :
                  ~WeatherBlockedSegment(filterOut.filtered.segments[i])

\* C6: when a numeric field a hard rule compares is missing or holds a value
\* that is no number, apply_hard_rules raises no error and returns what the
\* remaining rules give in order, that rule skipped.
C6_FailOpen ==
    (/\ pc = "hard"
     /\ \E i \in 1..Len(RuleOrder) : FieldUnusable(RuleOrder[i], convoy, ProbedSegment))
        => HardOutcomeIs(OrderedOutcome(convoy, ProbedSegment))

---------------------------------------------------------------------------
(* Exhaustive search, stated apart from astar_path *)

NodeIds(g) == {g.nodes[i] : i \in 1..Len(g.nodes)}

\* the least total cost from each node to `target` when every segment of
\* `segs` can be traversed in either direction at cost cost(segment):
\* Bellman-Ford rounds over the multigraph, Inf = unreachable
RECURSIVE CheapestRounds(_, _, _, _, _)
CheapestRounds(D, c, segs, N, k) ==
    IF k = 0 THEN D
    ELSE LET D2 == [n \in N |->
                      LET via == {Add(edge_cost_value(c, segs[i]), D[segs[i].to_node]) :
                                     i \in {j \in 1..Len(segs) : segs[j].from_node = n}}
                                 \cup
                                 {Add(edge_cost_value(c, segs[i]), D[segs[i].from_node]) :
                                     i \in {j \in 1..Len(segs) : segs[j].to_node = n}}
                                 \cup {D[n]}
                      IN  CHOOSE x \in via : \A y \in via : x <= y]
         IN  CheapestRounds(D2, c, segs, N, k - 1)

CheapestTo(c, g, target) ==
    LET N == GraphNodeIds(g) \cup {target}
    IN  CheapestRounds([n \in N |-> IF n = target THEN 0 ELSE Inf],
                       c, g.segments, N, Cardinality(N))

\* the nodes joined to `n` by segments that are not blocked
RECURSIVE Component(_, _, _)
Component(seen, segs, k) ==
    IF k = 0 THEN seen
    ELSE Component(
             seen \cup {segs[i].to_node :
                           i \in {j \in 1..Len(segs) :
                                     ~segs[j].is_blocked /\ segs[j].from_node \in seen}}
                  \cup {segs[i].from_node :
                           i \in {j \in 1..Len(segs) :
                                     ~segs[j].is_blocked /\ segs[j].to_node \in seen}},
             segs, k - 1)

OpenPath(g, origin, destination) ==
    destination \in Component({origin}, g.segments, Len(g.segments))

\* C1: when compute_route succeeds on the filtered segments of a planning
\* run, the sum of the returned computed_cost values equals the minimum total
\* cost over all origin-to-destination paths in the bidirectional graph in
\* which each filtered segment can be traversed in either direction at cost
\* edge_cost_for_convoy(convoy, segment).
C1_RouteCostIsMinimal ==
    (pc = "planned" /\ ~planOut.raised /\ planOut.plan.route_result.success)
        => SumCost(planOut.plan.route_result.route_segments, 1)
               = CheapestTo(convoy, files[<<"filtered_graph", convoy.convoy_id>>],
                            convoy.destination)[convoy.origin]

\* C2: the heuristic of compute_route never overestimates: for every node u
\* that can reach the destination, min_time_per_km * shortest_km(u,
\* destination) is at most the least total edge cost from u to the
\* destination.
C2_HeuristicAdmissible ==
    (pc = "routed" /\ ~routeOut.raised /\ routeOut.reason # "invalid_origin_or_destination")
        => LET ctx == SearchContext(convoy, graph, build_graph(graph))
               N == NodeSet(ctx.G)
               true_min == ShortestLengths(ctx.cost, N)
           IN  \A u \in N :
                   true_min[<<u, convoy.destination>>] < Inf
                       => ctx.h[u] <= true_min[<<u, convoy.destination>>] * ctx.ratio[2]

\* C7: compute_route fails with invalid_origin_or_destination, without
\* raising, whenever the origin or destination is not the node_id of an entry
\* of the graph's nodes list, also when that id occurs as the from_node or
\* to_node of a segment.
C7_InvalidEndpointRejected ==
    (pc = "routed" /\ (convoy.origin \notin NodeIds(graph)
                          \/ convoy.destination \notin NodeIds(graph)))
        => /\ ~routeOut.raised
           /\ ~routeOut.success
           /\ routeOut.reason = "invalid_origin_or_destination"

\* C8: blocked segments are never traversed: for origin # destination both
\* in the node set, when every origin-to-destination path uses a blocked
\* segment the route result is {success: false, reason: no_path}, both for
\* the planner's run on the filtered graph and for compute_route run on a
\* graph that still holds the blocked segments.
C8_BlockedNeverTraversed ==
    LET cut == /\ convoy.origin # convoy.destination
               /\ convoy.origin \in NodeIds(graph)
               /\ convoy.destination \in NodeIds(graph)
               /\ ~OpenPath(graph, convoy.origin, convoy.destination)
    IN  /\ (pc = "planned" /\ cut)
               => /\ ~planOut.raised
                  /\ ~planOut.plan.route_result.success
                  /\ planOut.plan.route_result.reason = "no_path"
        /\ (pc = "routed" /\ cut)
               => /\ ~routeOut.raised
                  /\ ~routeOut.success
                  /\ routeOut.reason = "no_path"

\* C9: plan_for_convoy always produces the merged artifact {convoy_id,
\* filter_log, route_result} with a summary whose route_success equals
\* route_result.success; when the search fails the artifact still holds
\* route_result.success = false and the full filter_log.
C9_PlanAlwaysProduced ==
    pc = "planned"
        => /\ ~planOut.raised
           /\ <<"plan", convoy.convoy_id>> \in DOMAIN files
           /\ files[<<"plan", convoy.convoy_id>>] = planOut.plan
           /\ planOut.plan_summary.route_success = planOut.plan.route_result.success
           /\ planOut.plan.filter_log.allowed_count
                  + planOut.plan.filter_log.excluded_count = Len(graph.segments)
           /\ ~planOut.plan.route_result.success
                  => planOut.plan.route_result.reason
                         \in {"invalid_origin_or_destination", "no_path"}

\* C10: edge_cost_for_convoy returns a value >= 0.1 for every convoy and
\* segment it returns a value for; hence every edge cost annotated by
\* compute_route, and every computed_cost of a returned route, is >= 0.1.
C10_CostFloor ==
    /\ (pc = "cost" /\ ~costOut.raised) => costOut.val >= 10
    /\ (pc = "routed" /\ ~routeOut.raised)
           => /\ \A i \in 1..Len(routeOut.route_segments) :
                     routeOut.route_segments[i].computed_cost >= 10
              /\ LET cost == AnnotatedCost(convoy, build_graph(graph))
                 IN  \A p \in DOMAIN cost : cost[p] >= 10

\* the floor decides: priority_score 100 with the medical discount on a
\* segment with base_time_min 0
C10_Witness ==
    /\ pc = "cost"
    /\ convoy.priority_score = 100
    /\ "medical" \in convoy.special_flags
    /\ ProbedSegment.base_time_min = Num(0)
    /\ ~costOut.raised
    /\ costOut.val = 10

---------------------------------------------------------------------------
(* The cost formula of the design, stated apart from edge_cost_for_convoy *)

\* traffic penalty 0 -> 0, 1 -> 5, 2 -> 15, any other level -> 0; risk_level
\* times 20; civil penalty Low 0, Medium 5, High 15 scaled by P1 0.2, P2 0.6,
\* P3 1.0; minus 10 for "medical"; clamped to >= 0 (1/100 minute)
DesignSoft(c, s) ==
    LET level == NumOr(s.traffic_level, 0)
        traffic == IF level = 1 THEN 500 ELSE IF level = 2 THEN 1500 ELSE 0
        risk == NumOr(s.risk_level, 0) * 20
        civil == IF s.civil_impact = "Medium" THEN 500
                 ELSE IF s.civil_impact = "High" THEN 1500 ELSE 0
        scale == IF c.priority_class = "P1" THEN 20
                 ELSE IF c.priority_class = "P2" THEN 60 ELSE 100
        medical == IF "medical" \in c.special_flags THEN 1000 ELSE 0
    IN  Max(0, traffic + risk + (civil * scale) \div 100 - medical)

\* max(0.1, base_time_min + soft - (priority_score/100)*8)
DesignCost(c, s) ==
    Max(10, NumOr(s.base_time_min, 0) * 100 + DesignSoft(c, s)
                - c.priority_score * 8)

\* C11: for every convoy and non-blocked segment on which edge_cost_for_convoy
\* returns a value, that value is max(0.1, base_time_min + soft -
\* (priority_score/100)*8) with soft the penalty sum clamped to >= 0 before
\* the priority allowance is subtracted.
C11_CostFormula ==
    (pc = "cost" /\ ~costOut.raised /\ ~ProbedSegment.is_blocked)
        => costOut.val = DesignCost(convoy, ProbedSegment)

\* the clamp decides: the medical discount makes the penalty sum negative,
\* and with the allowance of priority_score 100 a base of 30 gives 22.0
C11_Witness ==
    /\ pc = "cost"
    /\ ~costOut.raised
    /\ ~ProbedSegment.is_blocked
    /\ SoftWeight(convoy, ProbedSegment) < 0
    /\ convoy.priority_score = 100
    /\ ProbedSegment.base_time_min = Num(30)
    /\ costOut.val = 2200

---------------------------------------------------------------------------
(* Concurrent planning requests *)

\* what plan_route_endpoint answers a request served alone
OwnResponse(body) ==
    IF body.empty THEN ErrorResponse(400)
    ELSE LET out == plan_for_convoy(body.convoy, graph, <<>>)
         IN  IF out.raised THEN ErrorResponse(500) ELSE PlanResponse(out.plan)

\* C12: for every interleaving of two concurrent POST /plan_route requests,
\* also of two convoys that share a convoy_id or both omit it, the plan
\* returned to each caller is the plan computed from that caller's own
\* convoy.
C12_RunsIndependent ==
    \A r \in DOMAIN requests :
        requests[r].pc = "done"
            => requests[r].response = OwnResponse(requests[r].body)

\* the same for requests whose plan files have different names
C12_DistinctPrefixesIndependent ==
    \A r \in DOMAIN requests :
        (/\ requests[r].pc = "done"
         /\ \A q \in DOMAIN requests \ {r} :
                FilePrefix(requests[q].body.convoy)
                    # FilePrefix(requests[r].body.convoy))
            => requests[r].response = OwnResponse(requests[r].body)

---------------------------------------------------------------------------
(* The request store under concurrent calls *)

\* call k is a create_request that has answered 201
Created(k) ==
    /\ calls[k].call.op = "create"
    /\ calls[k].pc = "done"
    /\ calls[k].response.status = 201

\* every other call is on another request_id, or only reads
OthersOnOtherIds(k) ==
    \A q \in DOMAIN calls \ {k} :
        \/ calls[q].call.request_id # calls[k].call.request_id
        \/ calls[q].call.op = "get"

\* C13: once create_request has answered 201 for a request_id, that record
\* remains in the store, after any interleaving of concurrent create_request
\* and delete_request calls on other ids, until a delete_request for that id
\* succeeds.
C13_CreatedRecordStays ==
    \A k \in DOMAIN calls :
        (Created(k) /\ OthersOnOtherIds(k))
            => /\ HasId(load_store(store), calls[k].call.request_id)
               /\ FirstWithId(load_store(store), calls[k].call.request_id)
                      = calls[k].response.row

\* the same when no other call writes the store while the create is served
\* or after it
C13_CreatedRecordStaysAlone ==
    \A k \in DOMAIN calls :
        (/\ Created(k)
         /\ \A q \in DOMAIN calls \ {k} :
                calls[q].call.op = "get" \/ calls[q].call.empty
                    \/ (calls[q].pc = "done" /\ calls[q].response.status >= 400))
            => HasId(load_store(store), calls[k].call.request_id)

\* a create_request whose request_id is in the store it loads answers 400
\* and leaves the store unchanged
C13_DuplicateRejected ==
    [][\A k \in DOMAIN calls :
          (/\ CreateRequest(k)
           /\ ~calls[k].call.empty
           /\ HasId(load_store(store), calls[k].call.request_id))
              => /\ calls'[k].response.status = 400
                 /\ calls'[k].pc = "done"
                 /\ store' = store]_vars

---------------------------------------------------------------------------
(* The graph behind the heuristic of a planning run *)

\* the graph plan_for_convoy saved as filtered_graph_<prefix>.json
SearchedGraph == files[<<"filtered_graph", FilePrefix(convoy)>>]

\* the log it saved as filter_log_<prefix>.json
FilterLogFile == files[<<"filter_log", FilePrefix(convoy)>>]

\* a planning run whose search computed its heuristic tables
PlanSearched == pc = "planned" /\ tables.computed

RatioEqual(r1, r2) == r1[1] * r2[2] = r2[1] * r1[2]

\* the tables are those of graph g
TablesOf(g) ==
    /\ RatioEqual(tables.min_time_per_km, compute_min_time_per_km(g))
    /\ tables.dist_km_all = precompute_shortest_distance_km(g)

---------------------------------------------------------------------------
(* The edges build_graph makes of the segments *)

OtherFields == DOMAIN PlainSegment \ {"segment_id", "from_node", "to_node"}

\* the edge u -> v of G carries segment s with the given id
Carries(G, u, v, s, id) ==
    /\ <<u, v>> \in DOMAIN G.edge
    /\ InSeq(v, G.adj[u])
    /\ G.edge[<<u, v>>].segment_id = id
    /\ G.edge[<<u, v>>].from_node = u
    /\ G.edge[<<u, v>>].to_node = v
    /\ \A f \in OtherFields : G.edge[<<u, v>>][f] = s[f]

\* both edges of segment s are in G
BothEdges(G, s) ==
    /\ Carries(G, s.from_node, s.to_node, s, <<s.segment_id>>)
    /\ Carries(G, s.to_node, s.from_node, s, <<s.segment_id, "_rev">>)

SamePair(s, t) ==
    {s.from_node, s.to_node} = {t.from_node, t.to_node}

\* C15: for every segment s of the graph passed to build_graph, the built
\* graph has an edge from_node -> to_node carrying s's segment_id and
\* attributes and an edge to_node -> from_node carrying s's segment_id with
\* "_rev" and the same attributes, also when several segments join the same
\* pair of nodes in the same or the opposite orientation.
C15_EverySegmentHasItsEdges ==
    pc = "routed"
        => \A i \in 1..Len(graph.segments) :
               BothEdges(build_graph(graph), graph.segments[i])

\* the same for the segments that share their pair of nodes with no other
C15_LoneSegmentHasItsEdges ==
    pc = "routed"
        => \A i \in 1..Len(graph.segments) :
               (\A j \in 1..Len(graph.segments) \ {i} :
                    ~SamePair(graph.segments[i], graph.segments[j]))
                   => BothEdges(build_graph(graph), graph.segments[i])

---------------------------------------------------------------------------
(* The route of a plan and the filter's verdicts *)

\* route entry e is the forward or the "_rev" edge of segment s
EdgeOf(e, s) ==
    \/ /\ e.segment_id = <<s.segment_id>>
       /\ e.from = s.from_node
       /\ e.to = s.to_node
    \/ /\ e.segment_id = <<s.segment_id, "_rev">>
       /\ e.from = s.to_node
       /\ e.to = s.from_node

PlanSucceeded ==
    pc = "planned" /\ ~planOut.raised /\ planOut.plan.route_result.success

\* C16: for every plan whose route_result.success is true, route_nodes starts
\* at the convoy's origin and ends at its destination, each consecutive pair
\* of route_nodes is joined by the corresponding route_segments entry, every
\* route_segments entry is the forward or "_rev" edge of a segment the filter
\* allowed, and no traversed segment is in filter_log.excluded_segments.
C16_RouteUsesAllowedSegments ==
    PlanSucceeded
        => LET route == planOut.plan.route_result
               nodes == route.route_nodes
               segs == route.route_segments
               excluded == planOut.plan.filter_log.excluded_segments
           IN  /\ Len(nodes) >= 1
               /\ nodes[1] = convoy.origin
               /\ nodes[Len(nodes)] = convoy.destination
               /\ Len(segs) = Len(nodes) - 1
               /\ \A i \in 1..Len(segs) :
                      /\ segs[i].from = nodes[i]
                      /\ segs[i].to = nodes[i + 1]
                      /\ \E j \in 1..Len(SearchedGraph.segments) :
                             EdgeOf(segs[i], SearchedGraph.segments[j])
                      /\ \A j \in 1..Len(excluded) :
                             ~EdgeOf(segs[i], excluded[j].segment)

\* a route over a "_rev" edge in a graph from which the filter took a segment
C16_Witness ==
    /\ PlanSucceeded
    /\ planOut.plan.filter_log.excluded_count > 0
    /\ \E i \in 1..Len(planOut.plan.route_result.route_segments) :
           Len(planOut.plan.route_result.route_segments[i].segment_id) = 2

===========================================================================
